---- MODULE Spec2Model ----
(***************************************************************************)
(* A model of fake-engine.  src/math.py: the scalar helpers, the           *)
(* rectangle-to-coordinates helper and Polygon2D with its iteration        *)
(* cursor, its translation operators and its collision predicates.         *)
(* src/app.py: the construction of App, set_scene and the event loop.      *)
(* src/signal.py: Signal and Ref.  src/nodes/__init__.py: Timer.           *)
(* src/nodes/input/controller.py: the controllers.                         *)
(*                                                                         *)
(* Conventions.                                                            *)
(*  - A pygame.Vector2 or coordinate pair is a tuple <<x, y>>.             *)
(*  - A Python float is an integer with at most MantissaBits significant   *)
(*    bits; a sum or difference of floats is rounded to the nearest such   *)
(*    number, ties to the even significand, as IEEE 754 arithmetic does    *)
(*    with 53 bits.  Rounding is applied where the inputs reach the       *)
(*    magnitudes at which it acts: the translations and the scalar         *)
(*    helpers.  The collision predicates are evaluated on small integers,  *)
(*    whose differences and products are exact in the program's doubles;   *)
(*    their one division (the x-intersection of collides_point) is kept as *)
(*    an exact fraction and compared by cross-multiplication.              *)
(*  - A pygame.Rect is a tuple <<x, y, w, h>>.                              *)
(*  - A Python bool result is the string "True" or "False"; a raised       *)
(*    exception is the string naming its class.                            *)
(*  - A Polygon2D object is a name in Poly; its fields are vectors[name]   *)
(*    and index[name] (the field _index).                                  *)
(***************************************************************************)
EXTENDS Integers, Sequences, FiniteSets, TLC

VARIABLES
    vectors,    \* Polygon2D.vectors of every polygon object
    index,      \* Polygon2D._index of every polygon object
    rect,       \* the rectangle input of the rectangle specification
    padding,    \* the padding input of the rectangle specification
    call,       \* the last call made: its operation and arguments
    result,     \* what the last call returned or raised
    out,        \* the vertex or coordinate sequence the last call returned
    passes,     \* the iteration passes (for loops over a polygon) of the last call
    scalar,     \* the last call of a scalar helper: its arguments and its value
    app,        \* the App class attribute INSTANCE and the App objects built
    signal,     \* a Signal object: its callbacks and its last operation
    ref,        \* a Ref object: its value, its signal and its last operation
    scene,      \* the Scene objects, the current page and the last App operation
    timer,      \* a Timer object and its last operation
    pads        \* the controller objects and the last event one of them handled

vars == <<vectors, index, rect, padding, call, result, out, passes,
          scalar, app, signal, ref, scene, timer, pads>>

(***************************************************************************)
(* Bounds of the model.                                                    *)
(***************************************************************************)
\* The largest number of vertices of a generic polygon.
MaxVerts == 3
\* The largest rectangle position in the rectangle specification.
MaxPos == 1
\* The largest rectangle width and height (the smallest is -MaxSize).
MaxSize == 3
\* The largest padding.
MaxPad == 2
\* The significant bits of a float (53 in the program's doubles).
MantissaBits == 8
\* The largest small magnitude of a scalar input.
MaxSmall == 4
\* The most vertices of a polygon that is translated there and back.
MaxTransVerts == 2
\* The most directions given to create_from_lines.
MaxLines == 3
\* The largest position and the largest size of the rectangles of a pair.
MaxPairPos == 3
MaxPairSize == 2
\* The most App objects built.
MaxApps == 3
\* The most registrations a signal holds when connect is called.
MaxCallbacks == 3
\* The most items of the list a ref holds, and the most list objects made.
MaxItems == 2
MaxObjects == 3
\* The most Scene objects, and the most nodes of a scene.
MaxPages == 2
MaxNodes == 2
\* The most listening nodes added to the app itself.
MaxGlobalNodes == 1
\* The most calls of the trigger of a timer between two resets.
MaxTriggers == 2
\* The largest small timeout of a timer.
MaxTimeout == 3
\* The number of controllers and the most joysticks pygame sees.
MaxControllers == 2
MaxDevices == 2

\* Coordinates of generic vertices, and of query points (one unit wider).
Coord == 0 .. 2
PointCoord == -1 .. 3

Poly == {"p", "q"}
Points == PointCoord \X PointCoord
Rects == {<<x, y, w, h>> : x \in 0 .. MaxPos, y \in 0 .. MaxPos,
                           w \in (-MaxSize) .. MaxSize, h \in (-MaxSize) .. MaxSize}

min(a, b) == IF a < b THEN a ELSE b
max(a, b) == IF a > b THEN a ELSE b

RECURSIVE SeqsOfLen(_, _)
SeqsOfLen(S, n) ==
    IF n = 0 THEN {<<>>}
    ELSE {Append(s, e) : s \in SeqsOfLen(S, n - 1), e \in S}

SeqsUpTo(S, n) == UNION {SeqsOfLen(S, k) : k \in 0 .. n}

Bool(b) == IF b THEN "True" ELSE "False"

\* F(v), with v evaluated once (a local variable holding a value).
Bind(v, F(_)) == CHOOSE r \in {F(x) : x \in {v}} : TRUE

(***************************************************************************)
(* Float arithmetic.  Every number below is a float; the result of an      *)
(* operation is the exact result rounded to MantissaBits significant bits. *)
(***************************************************************************)
abs(x) == IF x < 0 THEN -x ELSE x

RECURSIVE Pow2(_)
Pow2(n) == IF n = 0 THEN 1 ELSE 2 * Pow2(n - 1)

RECURSIVE ulp_of(_, _)
\* The spacing of the floats around the magnitude m: the least power of two
\* u, from u upwards, for which m \div u fits the significand.
ulp_of(m, u) == IF m \div u < Pow2(MantissaBits) THEN u ELSE ulp_of(m, 2 * u)

\* Round to nearest, ties to even.
Round(n) ==
    LET m == abs(n)
        u == ulp_of(m, 1)
        q == m \div u
        r == m % u
        up == 2 * r > u \/ (2 * r = u /\ q % 2 = 1)
        mag == (IF up THEN q + 1 ELSE q) * u
    IN  IF n < 0 THEN -mag ELSE mag

\* n is a float: it rounds to itself.
Representable(n) == Round(n) = n

float_add(a, b) == Round(a + b)
float_sub(a, b) == Round(a - b)
float_mul(a, b) == Round(a * b)

\* rectToCoordinates inflating by the padding alone on the left and the top.
rectToCoordinates_pad_only(r, pad) ==
    << <<r[1] - pad, r[2] - pad>>,
       <<(r[1] + r[3]) + pad, r[2] - pad>>,
       <<(r[1] + r[3]) + pad, (r[2] + r[4]) + pad>>,
       <<r[1] - pad, (r[2] + r[4]) + pad>> >>

(***************************************************************************)
(* rectToCoordinates (math.py 13-26).                                      *)
(***************************************************************************)
rectToCoordinates(r, pad) ==
    LET x == r[1]
        y == r[2]
        w == r[3]
        h == r[4]
    IN  << <<x - (pad + 1), y - (pad + 1)>>,
           <<(x + w) + pad, y - (pad + 1)>>,
           <<(x + w) + pad, (y + h) + pad>>,
           <<x - (pad + 1), (y + h) + pad>> >>

(***************************************************************************)
(* Polygon2D.from_rect (math.py 65-72): topleft, topright, bottomright,    *)
(* bottomleft of the rectangle, as pygame computes them from x, y, w, h.   *)
(***************************************************************************)
from_rect(r) ==
    LET top_left == <<r[1], r[2]>>
        top_right == <<r[1] + r[3], r[2]>>
        bottom_right == <<r[1] + r[3], r[2] + r[4]>>
        bottom_left == <<r[1], r[2] + r[4]>>
    IN  <<top_left, top_right, bottom_right, bottom_left>>

(***************************************************************************)
(* Polygon2D.__next__ (math.py 80-87) on a polygon with vertices vs and    *)
(* cursor idx: StopIteration with the cursor reset, or the item under the  *)
(* cursor with the cursor advanced.  (Python indexes from 0, TLA+ from 1.) *)
(***************************************************************************)
__next__(vs, idx) ==
    IF idx = Len(vs)
    THEN [stop |-> TRUE, item |-> <<0, 0>>, index |-> 0]
    ELSE [stop |-> FALSE, item |-> vs[idx + 1], index |-> idx + 1]

(***************************************************************************)
(* Polygon2D.collides_point (math.py 134-163).                             *)
(*                                                                         *)
(* x_intersection is a local variable of the function, assigned inside     *)
(* the loop only for a non-horizontal edge: x keeps whether it is          *)
(* assigned, its value as the fraction num/den + base, and the edge that   *)
(* assigned it.                                                            *)
(***************************************************************************)
NoX == [set |-> FALSE, num |-> 0, den |-> 1, base |-> 0, edge |-> 0]

\* point_x <= x_intersection, exactly.
LeqX(px, x) ==
    IF x.den > 0 THEN (px - x.base) * x.den <= x.num
    ELSE (px - x.base) * x.den >= x.num

\* edge_step without the test point_x <= max(vertex1_x, vertex2_x).
edge_step_no_xbound(acc0, v1, v2, pt, i) ==
    Bind(acc0, LAMBDA acc :
    LET reached == pt[2] > min(v1[2], v2[2]) /\ pt[2] <= max(v1[2], v2[2])
        x == IF reached /\ v1[2] # v2[2]
             THEN [set |-> TRUE, num |-> (pt[2] - v1[2]) * (v2[1] - v1[1]),
                   den |-> v2[2] - v1[2], base |-> v1[1], edge |-> i]
             ELSE acc.x
    IN  [inside |-> IF reached /\ (v1[1] = v2[1] \/ LeqX(pt[1], x))
                    THEN ~acc.inside ELSE acc.inside,
         x |-> x, err |-> acc.err, stale |-> acc.stale])

\* One iteration of the loop (lines 148-161) for edge i = (v1, v2).
edge_step(acc0, v1, v2, pt, i) ==
    Bind(acc0, LAMBDA acc :
    LET point_x == pt[1]
        point_y == pt[2]
        reached == /\ point_y > min(v1[2], v2[2])
                   /\ point_y <= max(v1[2], v2[2])
                   /\ point_x <= max(v1[1], v2[1])
        x == IF reached /\ v1[2] # v2[2]
             THEN [set |-> TRUE, num |-> (point_y - v1[2]) * (v2[1] - v1[1]),
                   den |-> v2[2] - v1[2], base |-> v1[1], edge |-> i]
             ELSE acc.x
        reads == reached /\ v1[1] # v2[1]
    IN  IF reads /\ ~x.set
        THEN [acc EXCEPT !.err = "UnboundLocalError"]
        ELSE [inside |-> IF reached /\ (v1[1] = v2[1] \/ LeqX(point_x, x))
                         THEN ~acc.inside ELSE acc.inside,
              x |-> x,
              err |-> acc.err,
              stale |-> acc.stale \/ (reads /\ x.edge # i)])

RECURSIVE ray_cast(_, _, _, _)
ray_cast(vs, pt, i, acc0) ==
    Bind(acc0, LAMBDA acc :
        IF i > Len(vs) \/ acc.err # "" THEN acc
        ELSE ray_cast(vs, pt, i + 1,
                      edge_step(acc, vs[i], vs[(i % Len(vs)) + 1], pt, i)))

\* The loop without its first edge (vectors[0], vectors[1]).
ray_cast_skip_first(vs, pt) ==
    ray_cast(vs, pt, 2, [inside |-> FALSE, x |-> NoX, err |-> "", stale |-> FALSE])

\* The state of the loop when the function ends.
ray_cast_end(vs, pt) ==
    ray_cast(vs, pt, 1, [inside |-> FALSE, x |-> NoX, err |-> "", stale |-> FALSE])

collides_point(vs, pt) ==
    IF Len(vs) = 0 THEN "IndexError"    \* self.vectors[0], line 145
    ELSE Bind(ray_cast_end(vs, pt), LAMBDA r :
             IF r.err # "" THEN r.err ELSE Bool(r.inside))

(***************************************************************************)
(* Polygon2D._do_lines_intersect (math.py 106-127).                        *)
(***************************************************************************)
is_counter_clockwise(a, b, c) ==
    (c[2] - a[2]) * (b[1] - a[1]) > (b[2] - a[2]) * (c[1] - a[1])

\* The first of the two tests alone.
_do_lines_intersect_one_sided(p1, p2, q1, q2) ==
    is_counter_clockwise(p1, q1, q2) # is_counter_clockwise(p2, q1, q2)

_do_lines_intersect(p1, p2, q1, q2) ==
    /\ is_counter_clockwise(p1, q1, q2) # is_counter_clockwise(p2, q1, q2)
    /\ is_counter_clockwise(p1, p2, q1) # is_counter_clockwise(p1, p2, q2)

(***************************************************************************)
(* A loop of collides_polygon (math.py 167-169 and 171-173):               *)
(*     for point in <iterated>: if <container>.collides_point(point):      *)
(*         return True                                                     *)
(* iter() of a Polygon2D is the polygon itself (collections.abc.Iterator), *)
(* so the loop calls __next__ on the polygon's own cursor, from wherever   *)
(* it stands.  items are the vertices the pass has yielded.                *)
(***************************************************************************)
\* The loop returning the test of the first vertex it gets, whatever it is:
\*     for point in <iterated>: return <container>.collides_point(point)
for_point_in_first(vs, idx, container, items0) ==
    Bind(__next__(vs, idx), LAMBDA n :
        IF n.stop
        THEN [outcome |-> "exhausted", index |-> n.index, items |-> items0]
        ELSE [outcome |-> collides_point(container, n.item), index |-> n.index,
              items |-> Append(items0, n.item)])

RECURSIVE for_point_in(_, _, _, _)
for_point_in(vs, idx, container, items0) ==
    Bind(items0, LAMBDA items :
    Bind(__next__(vs, idx), LAMBDA n :
        IF n.stop
        THEN [outcome |-> "exhausted", index |-> n.index, items |-> items]
        ELSE Bind(collides_point(container, n.item), LAMBDA c :
                 IF c = "False"
                 THEN for_point_in(vs, n.index, container, Append(items, n.item))
                 ELSE [outcome |-> c, index |-> n.index,
                       items |-> Append(items, n.item)])))

\* The nested loops over the edges (lines 176-184).
edges_intersect(vs, ws) ==
    \E i \in 0 .. Len(vs) - 1 : \E j \in 0 .. Len(ws) - 1 :
        _do_lines_intersect(vs[i + 1], vs[((i + 1) % Len(vs)) + 1],
                            ws[j + 1], ws[((j + 1) % Len(ws)) + 1])

Pass(name, start, r) ==
    [poly |-> name, start |-> start, items |-> r.items,
     exhausted |-> r.outcome = "exhausted"]

(***************************************************************************)
(* Polygon2D.collides_polygon (math.py 165-186), self = a, polygon = b,    *)
(* objects of the heap (vec, idx).  The result, the cursors afterwards     *)
(* and the passes made.  a and b may be the same object.                   *)
(***************************************************************************)
collides_polygon(vec, idx, a, b) ==
    Bind(for_point_in(vec[b], idx[b], vec[a], <<>>), LAMBDA r1 :
    LET idx1 == [idx EXCEPT ![b] = r1.index]
        p1 == Pass(b, idx[b], r1)
    IN  IF r1.outcome # "exhausted"
        THEN [val |-> r1.outcome, index |-> idx1, passes |-> <<p1>>]
        ELSE Bind(for_point_in(vec[a], idx1[a], vec[b], <<>>), LAMBDA r2 :
             LET idx2 == [idx1 EXCEPT ![a] = r2.index]
                 p2 == Pass(a, idx1[a], r2)
             IN  IF r2.outcome # "exhausted"
                 THEN [val |-> r2.outcome, index |-> idx2, passes |-> <<p1, p2>>]
                 ELSE [val |-> Bool(edges_intersect(vec[a], vec[b])),
                       index |-> idx2, passes |-> <<p1, p2>>]))

(***************************************************************************)
(* Polygon2D.collides_rect (math.py 129-132): a new polygon object         *)
(* rect_polygon, then collides_polygon.                                    *)
(***************************************************************************)
collides_rect(vec, idx, a, r) ==
    LET objs == (DOMAIN vec) \cup {"rect_polygon"}
        vec1 == [o \in objs |-> IF o = "rect_polygon" THEN from_rect(r) ELSE vec[o]]
        idx1 == [o \in objs |-> IF o = "rect_polygon" THEN 0 ELSE idx[o]]
    IN  Bind(collides_polygon(vec1, idx1, a, "rect_polygon"), LAMBDA c :
            [val |-> c.val, index |-> [o \in DOMAIN vec |-> c.index[o]],
             passes |-> c.passes])

(***************************************************************************)
(* Polygon2D.__add__ and __sub__ (math.py 92-104).                         *)
(*                                                                         *)
(* An operand is [type, items, numeric]: its Python type, its items (a     *)
(* Vector2's or a sequence's) and whether every item is a number.          *)
(* pygame's Vector2 + other and Vector2 - other accept a Vector2 or a      *)
(* sequence of two numbers and raise TypeError for anything else.          *)
(***************************************************************************)
vector2_compatible(other) ==
    \/ other.type = "Vector2"
    \/ other.type \in {"tuple", "list"} /\ Len(other.items) = 2 /\ other.numeric

RECURSIVE translate_all(_, _, _)
\* [v.copy() + other for v in self.vectors], sign = 1, or - other, sign = -1
translate_all(vs, other, sign) ==
    IF vs = <<>> THEN [val |-> "ok", out |-> <<>>]
    ELSE IF ~vector2_compatible(other) THEN [val |-> "TypeError", out |-> <<>>]
    ELSE Bind(translate_all(Tail(vs), other, sign), LAMBDA rest :
             LET v == Head(vs)
             IN  [val |-> rest.val,
                  out |-> <<
                      IF sign = 1
                      THEN <<float_add(v[1], other.items[1]),
                             float_add(v[2], other.items[2])>>
                      ELSE <<float_sub(v[1], other.items[1]),
                             float_sub(v[2], other.items[2])>>
                  >> \o rest.out])

__add__(vs, other) ==
    IF ~(other.type \in {"Vector2", "tuple"})
    THEN [val |-> "TypeError", out |-> <<>>]
    ELSE Bind(translate_all(vs, other, 1), LAMBDA t :
             IF t.val = "ok" THEN [val |-> "Polygon2D", out |-> t.out]
             ELSE [val |-> t.val, out |-> <<>>])

\* A subtraction that adds.
__sub__adding(vs, other) ==
    IF ~(other.type \in {"Vector2", "tuple"})
    THEN [val |-> "TypeError", out |-> <<>>]
    ELSE Bind(translate_all(vs, other, 1), LAMBDA t :
             IF t.val = "ok" THEN [val |-> "Polygon2D", out |-> t.out]
             ELSE [val |-> t.val, out |-> <<>>])

__sub__(vs, other) ==
    IF ~(other.type \in {"Vector2", "tuple"})
    THEN [val |-> "TypeError", out |-> <<>>]
    ELSE Bind(translate_all(vs, other, -1), LAMBDA t :
             IF t.val = "ok" THEN [val |-> "Polygon2D", out |-> t.out]
             ELSE [val |-> t.val, out |-> <<>>])

\* pygame.Vector2 + a pair of numbers.
vector2_add(v, d) == <<float_add(v[1], d[1]), float_add(v[2], d[2])>>

RECURSIVE lineto_from(_, _)
\* The loop of create_from_lines: last = last.copy() + direction, appended.
lineto_from(last, lineto) ==
    IF lineto = <<>> THEN <<>>
    ELSE Bind(vector2_add(last, Head(lineto)), LAMBDA next :
             <<next>> \o lineto_from(next, Tail(lineto)))

\* A loop that adds every direction to start.
create_from_lines_from_start(start, lineto) ==
    [val |-> "Polygon2D",
     out |-> <<start>> \o [k \in 1 .. Len(lineto) |-> vector2_add(start, lineto[k])],
     start |-> start]

\* out: the vertices of the polygon returned; start: the value of the
\* vector passed as start when the call returns (the code reads it, puts it
\* in the list and copies it, and assigns to none of its coordinates).
create_from_lines(start, lineto) ==
    [val |-> "Polygon2D",
     out |-> <<start>> \o lineto_from(start, lineto),
     start |-> start]

(***************************************************************************)
(* The scalar helpers.                                                     *)
(***************************************************************************)
\* A polarity that maps 0 to 0.
get_polarity_signed(value) == IF value > 0 THEN 1 ELSE IF value < 0 THEN -1 ELSE 0

get_polarity(value) == IF value > 0 THEN 1 ELSE -1

\* relax without its first branch.
relax_unclamped(value, step) ==
    float_sub(value, float_mul(step, get_polarity(value)))

relax(value, step) ==
    IF abs(value) < step THEN 0
    ELSE float_sub(value, float_mul(step, get_polarity(value)))

neutralize(value, step) ==
    IF value > 0 THEN float_sub(value, step) ELSE float_add(value, step)

\* The scalar inputs and the values the two helpers returned for them:
\* <<>> before the call, <<value>> after it.
NoScalar == [value |-> 0, step |-> 0, relax |-> <<>>, neutralize |-> <<>>]

(***************************************************************************)
(* App.  An object is its number, from 1, in app.objects; None is 0.       *)
(* app.App_INSTANCE is the attribute INSTANCE of the class; the field      *)
(* self_INSTANCE of an object is the attribute INSTANCE in the object's    *)
(* own dictionary, <<>> while the object has none.  app.set_mode counts    *)
(* the calls of pygame.display.set_mode and app.last is the outcome of the *)
(* last construction.                                                      *)
(***************************************************************************)
NoApp == [App_INSTANCE |-> 0, objects |-> <<>>, set_mode |-> 0, last |-> "none"]

\* self.INSTANCE read: the object's own attribute, else the class's.
getattr_INSTANCE(own, class) == IF own # <<>> THEN own[1] ELSE class

\* App(width, height, caption=...): a new object, then __init__ on it.
App_init(a, width, height) ==
    LET self == Len(a.objects) + 1
    IN  IF getattr_INSTANCE(<<>>, a.App_INSTANCE) # 0
        THEN [a EXCEPT !.last = "Exception"]
        ELSE [a EXCEPT
                 !.objects = Append(@, [self_INSTANCE |-> <<self>>, width |-> width,
                                        height |-> height, running |-> FALSE]),
                 !.set_mode = @ + 1,
                 !.last = "App"]

(***************************************************************************)
(* Signal.  A callback is a name; calling it records the call, and the     *)
(* callback named once then disconnects itself from the signal.            *)
(***************************************************************************)
Callback == {"f", "g", "once"}

\* The least index of cb in callbacks, 0 when there is none.
list_index(callbacks, cb) ==
    IF \E i \in 1 .. Len(callbacks) : callbacks[i] = cb
    THEN CHOOSE i \in 1 .. Len(callbacks) :
             /\ callbacks[i] = cb
             /\ \A j \in 1 .. i - 1 : callbacks[j] # cb
    ELSE 0

list_del(callbacks, i) ==
    SubSeq(callbacks, 1, i - 1) \o SubSeq(callbacks, i + 1, Len(callbacks))

\* A disconnect that deletes the latest registration.
disconnect_last(callbacks, cb) ==
    IF \E i \in 1 .. Len(callbacks) : callbacks[i] = cb
    THEN [callbacks |-> list_del(callbacks,
              CHOOSE i \in 1 .. Len(callbacks) :
                  /\ callbacks[i] = cb
                  /\ \A j \in i + 1 .. Len(callbacks) : callbacks[j] # cb),
          raised |-> "none"]
    ELSE [callbacks |-> callbacks, raised |-> "ValueError"]

disconnect(callbacks, cb) ==
    Bind(list_index(callbacks, cb), LAMBDA i :
        IF i = 0 THEN [callbacks |-> callbacks, raised |-> "ValueError"]
        ELSE [callbacks |-> list_del(callbacks, i), raised |-> "none"])

connect(callbacks, cb) == Append(callbacks, cb)

\* cb(*args, **kwargs): what the call does to the signal's list.
invoke(cb, callbacks) ==
    IF cb = "once" THEN disconnect(callbacks, cb)
    ELSE [callbacks |-> callbacks, raised |-> "none"]

RECURSIVE emit_from(_, _, _, _)
\* for cb in self.callbacks, with the list iterator at position i.
emit_from(callbacks, i, args, log) ==
    IF i >= Len(callbacks)
    THEN [callbacks |-> callbacks, log |-> log, raised |-> "none"]
    ELSE Bind(invoke(callbacks[i + 1], callbacks), LAMBDA r :
             IF r.raised # "none"
             THEN [callbacks |-> r.callbacks,
                   log |-> Append(log, <<callbacks[i + 1], args>>),
                   raised |-> r.raised]
             ELSE emit_from(r.callbacks, i + 1, args,
                            Append(log, <<callbacks[i + 1], args>>)))

emit(callbacks, args) == emit_from(callbacks, 0, args, <<>>)

\* signal.before is the list when the last operation began, signal.log the
\* calls of callbacks the last operation made, in order.
NoSignal ==
    [callbacks |-> <<>>, op |-> "none", cb |-> "", args |-> <<>>,
     before |-> <<>>, raised |-> "none", log |-> <<>>]

(***************************************************************************)
(* Ref.  A value is an object: None, an int, or a list with an identity    *)
(* (id) and its items.  ref.raw is the field __raw__, ref.callbacks the    *)
(* list of the ref's signal.  Of the last operation, ref.emitted holds the *)
(* arguments of every emit of the signal and ref.log the calls of the      *)
(* watchers, in order.                                                     *)
(***************************************************************************)
NoneValue == [kind |-> "None", id |-> 0, items |-> <<>>]
IntValue(n) == [kind |-> "int", id |-> 0, items |-> <<n>>]
ListValue(id, items) == [kind |-> "list", id |-> id, items |-> items]

\* getattr(value, name) finds a method.
has_method(value, name) == value.kind = "list" /\ name \in {"append", "copy"}

\* func(*args): self is the object after the call, ret the value returned;
\* list.append changes the list and returns None, list.copy returns a new
\* list with the same items.
call_method(value, name, args, next_id) ==
    IF name = "append"
    THEN [self |-> [value EXCEPT !.items = Append(@, args[1])],
          ret |-> NoneValue, next_id |-> next_id]
    ELSE [self |-> value,
          ret |-> ListValue(next_id, value.items), next_id |-> next_id + 1]

PlainValue(v) == [type |-> "value", value |-> v, name |-> "", args |-> <<>>,
                  use_return_value |-> FALSE]
MethodCall(name, args, use_return_value) ==
    [type |-> "MethodCall", value |-> NoneValue, name |-> name, args |-> args,
     use_return_value |-> use_return_value]

\* Ref(value) for an empty list.
NoRef ==
    [raw |-> ListValue(1, <<>>), callbacks |-> <<>>, next_id |-> 2,
     op |-> "none", arg |-> PlainValue(NoneValue),
     before |-> <<>>, before_raw |-> NoneValue,
     emitted |-> <<>>, log |-> <<>>, raised |-> "none"]

\* self.signal.emit(args)
ref_emit(r, args) ==
    Bind(emit(r.callbacks, args), LAMBDA e :
        [r EXCEPT !.callbacks = e.callbacks,
                  !.emitted = Append(@, args),
                  !.log = @ \o e.log,
                  !.raised = e.raised])

\* self.value = v
value_setter(r, v) ==
    Bind([r EXCEPT !.raw = v], LAMBDA stored : ref_emit(stored, <<stored.raw>>))

\* self.value
value_getter(r) == r.raw

\* A mutate that never stores the return value.
mutate_in_place(r, m) ==
    IF m.type = "MethodCall"
    THEN IF ~has_method(r.raw, m.name) THEN [r EXCEPT !.raised = "AttributeError"]
         ELSE Bind(call_method(r.raw, m.name, m.args, r.next_id), LAMBDA c :
                  ref_emit([r EXCEPT !.raw = c.self, !.next_id = c.next_id],
                           <<c.self>>))
    ELSE value_setter(r, m.value)

mutate(r, m) ==
    IF m.type = "MethodCall"
    THEN IF ~has_method(r.raw, m.name) THEN [r EXCEPT !.raised = "AttributeError"]
         ELSE Bind(call_method(r.raw, m.name, m.args, r.next_id), LAMBDA c :
                  Bind([r EXCEPT !.raw = c.self, !.next_id = c.next_id],
                       LAMBDA called :
                           IF m.use_return_value
                           THEN value_setter(called, c.ret)
                           ELSE ref_emit(called, <<value_getter(called)>>)))
    ELSE value_setter(r, m.value)

(***************************************************************************)
(* Scenes and the event loop of App.  A Scene object is its number, from   *)
(* 1, in scene.pages; None is 0.  A node is the name of its kind, and      *)
(* can_listen of the kind listener is true.  scene.trace holds the calls   *)
(* the last operation made, in order, each with the current page at the    *)
(* time of the call.                                                       *)
(***************************************************************************)
NodeKinds == {"listener", "plain"}
can_listen(node) == node = "listener"

Called(name, page, node, current) ==
    [call |-> name, page |-> page, node |-> node, current |-> current]

\* Scene(app)
NewScene == [all_nodes |-> <<>>, listening_nodes |-> <<>>]

NoScene ==
    [current_page |-> 0, pages |-> <<>>, global_listening_nodes |-> <<>>,
     running |-> FALSE, op |-> "none", page |-> 0, class |-> FALSE,
     node |-> "", event |-> "", before_page |-> 0, trace |-> <<>>]

\* The operation begins: what the model remembers of the one before goes.
Begin(sc, op) ==
    [sc EXCEPT !.op = op, !.page = 0, !.class = FALSE, !.node = "",
               !.event = "", !.before_page = sc.current_page, !.trace = <<>>]

\* Scene.add_node on the page numbered page.
add_node(sc, page, node) ==
    [sc EXCEPT !.pages[page].all_nodes = Append(@, node),
               !.pages[page].listening_nodes =
                   IF can_listen(node) THEN Append(@, node) ELSE @]

\* App.add_global_node(node)
add_global_node(sc, node) ==
    [sc EXCEPT !.global_listening_nodes =
                   IF can_listen(node) THEN Append(@, node) ELSE @]

\* Scene._handle_event(event) of the page numbered page: the calls it makes.
Scene_handle_event(sc, page) ==
    [k \in 1 .. Len(sc.pages[page].listening_nodes) |->
        Called("Node.handle_event", page, sc.pages[page].listening_nodes[k],
               sc.current_page)]
    \o <<Called("Scene.handle_event", page, "", sc.current_page)>>

\* set_scene making the page current before it calls init.
set_scene_current_first(sc, page, is_class) ==
    LET reset == IF sc.current_page # 0
                 THEN <<Called("reset", sc.current_page, "", sc.current_page)>>
                 ELSE <<>>
        new == Len(sc.pages) + 1
        target == IF is_class THEN new ELSE page
        made == IF is_class THEN <<Called("__init__", new, "", sc.current_page)>>
                ELSE <<>>
    IN  [sc EXCEPT !.pages = IF is_class THEN Append(@, NewScene) ELSE @,
                   !.trace = reset \o made \o <<Called("init", target, "", target)>>,
                   !.current_page = target]

\* App.set_scene(page): page is a Scene object, or with is_class the class
\* Scene (or a subclass), which is instantiated.
set_scene(sc, page, is_class) ==
    LET reset == IF sc.current_page # 0
                 THEN <<Called("reset", sc.current_page, "", sc.current_page)>>
                 ELSE <<>>
        new == Len(sc.pages) + 1
        target == IF is_class THEN new ELSE page
        made == IF is_class THEN <<Called("__init__", new, "", sc.current_page)>>
                ELSE <<>>
    IN  [sc EXCEPT !.pages = IF is_class THEN Append(@, NewScene) ELSE @,
                   !.trace = reset \o made
                             \o <<Called("init", target, "", sc.current_page)>>,
                   !.current_page = target]

\* App._handle_event(event): the global listening nodes, then the app's own
\* handle_event.
App_handle_event(sc) ==
    [k \in 1 .. Len(sc.global_listening_nodes) |->
        Called("Node.handle_event", 0, sc.global_listening_nodes[k], sc.current_page)]
    \o <<Called("App.handle_event", 0, "", sc.current_page)>>

\* The body of the loop over pygame.event.get() in App.loop, for one event.
loop_event(sc, event) ==
    [sc EXCEPT !.running = IF event = "QUIT" THEN FALSE ELSE @,
               !.trace =
                   (IF sc.current_page # 0
                    THEN <<Called("Scene.handle_event", sc.current_page, "",
                                  sc.current_page)>>
                    ELSE <<>>)
                   \o App_handle_event(sc)]

(***************************************************************************)
(* Timer.  The countdown is a float or math.inf.  Of the last operation,   *)
(* timer.before is the countdown when it began and timer.fired the number  *)
(* of calls of the trigger it made; timer.total counts the calls of the    *)
(* trigger since the timer was constructed or reset() was last called on   *)
(* it from outside.                                                        *)
(***************************************************************************)
Finite(n) == [inf |-> FALSE, n |-> n]
math_inf == [inf |-> TRUE, n |-> 0]

\* countdown < timeout and countdown >= timeout, for a finite timeout
less_than(c, timeout) == ~c.inf /\ c.n < timeout
at_least(c, timeout) == c.inf \/ c.n >= timeout

\* countdown + delta
plus(c, delta) == IF c.inf THEN c ELSE Finite(float_add(c.n, delta))

NoTimer ==
    [countdown |-> Finite(0), timeout |-> 0, single_shot |-> TRUE,
     op |-> "none", delta |-> 0, before |-> Finite(0), fired |-> 0, total |-> 0]

active(t) == less_than(t.countdown, t.timeout) \/ ~t.single_shot

reset(t) == [t EXCEPT !.countdown = Finite(0)]

\* process without its first test.
process_always(t, delta) ==
    Bind(plus(t.countdown, delta), LAMBDA c :
        IF at_least(c, t.timeout)
        THEN IF t.single_shot
             THEN [t EXCEPT !.countdown = math_inf, !.fired = @ + 1]
             ELSE reset([t EXCEPT !.countdown = c, !.fired = @ + 1])
        ELSE [t EXCEPT !.countdown = c])

process(t, delta) ==
    IF ~active(t) THEN t
    ELSE Bind(plus(t.countdown, delta), LAMBDA c :
             IF at_least(c, t.timeout)
             THEN IF t.single_shot
                  THEN [t EXCEPT !.countdown = math_inf, !.fired = @ + 1]
                  ELSE reset([t EXCEPT !.countdown = c, !.fired = @ + 1])
             ELSE [t EXCEPT !.countdown = c])

(***************************************************************************)
(* The controllers.  A controller is its index in BaseController           *)
(* .controllers.  pygame sees pads.devices joysticks: Joystick(i) opens    *)
(* the i-th of them, whose instance id is i, and raises pygame.error when  *)
(* there is none.  A signal is a pair <<name, edge>>; pads.emitted holds   *)
(* the signals the last handle_event emitted, each with the controller as  *)
(* its argument.  An event is a record of its type and attributes; an      *)
(* attribute the event type does not have is <<>>.                         *)
(***************************************************************************)
JoystickEvents ==
    {"JOYAXISMOTION", "JOYBALLMOTION", "JOYBUTTONDOWN", "JOYBUTTONUP",
     "JOYDEVICEADDED", "JOYDEVICEREMOVED", "JOYHATMOTION"}

Event(type, instance_id, button, axis) ==
    [type |-> type, instance_id |-> instance_id, button |-> button, axis |-> axis]

on_connected == <<"controller", "connected">>
on_disconnected == <<"controller", "disconnected">>

\* self._button_id_mapping: the pair of signals of every button id.
_button_id_mapping ==
    (0 :> <<<<"x", "up">>, <<"x", "down">>>>)
    @@ (1 :> <<<<"circle", "up">>, <<"circle", "down">>>>)
    @@ (2 :> <<<<"square", "up">>, <<"square", "down">>>>)
    @@ (3 :> <<<<"triangle", "down">>, <<"triangle", "down">>>>)
    @@ (4 :> <<<<"share", "up">>, <<"share", "down">>>>)
    @@ (5 :> <<<<"ps", "up">>, <<"ps", "down">>>>)
    @@ (6 :> <<<<"option", "up">>, <<"option", "down">>>>)
    @@ (7 :> <<<<"l3", "up">>, <<"l3", "down">>>>)
    @@ (8 :> <<<<"r3", "up">>, <<"r3", "down">>>>)
    @@ (9 :> <<<<"l1", "up">>, <<"l1", "down">>>>)
    @@ (10 :> <<<<"r1", "up">>, <<"r1", "down">>>>)
    @@ (11 :> <<<<"direction_up", "up">>, <<"direction_up", "down">>>>)
    @@ (12 :> <<<<"direction_down", "up">>, <<"direction_down", "down">>>>)
    @@ (13 :> <<<<"direction_left", "up">>, <<"direction_left", "down">>>>)
    @@ (14 :> <<<<"direction_right", "up">>, <<"direction_right", "down">>>>)
    @@ (15 :> <<<<"track_pad", "up">>, <<"track_pad", "down">>>>)

\* Playstation4Controller.handle_controller_event: the signals it emits.
\* Setting a hat Ref calls its watcher, which emits the axis signal.
handle_controller_event(kind, event) ==
    IF kind # "Playstation4Controller" THEN <<>>
    ELSE IF event.type = "JOYBUTTONUP" THEN <<_button_id_mapping[event.button][1]>>
    ELSE IF event.type = "JOYBUTTONDOWN" THEN <<_button_id_mapping[event.button][2]>>
    ELSE IF event.type = "JOYAXISMOTION"
    THEN IF event.axis \in 0 .. 1 THEN <<<<"l_axis", "changed">>>>
         ELSE IF event.axis \in 2 .. 3 THEN <<<<"r_axis", "changed">>>>
         ELSE IF event.axis = 4 THEN <<<<"l2_value", "changed">>>>
         ELSE IF event.axis = 5 THEN <<<<"r2_value", "changed">>>>
         ELSE <<>>
    ELSE <<>>

NoPads ==
    [devices |-> 0, kind |-> <<>>, joystick |-> <<>>,
     op |-> "none", self |-> 0, event |-> Event("", <<>>, 0, 0),
     before |-> <<>>, emitted |-> <<>>, raised |-> "none"]

\* The branch of handle_event that binds a joystick.
bind_joystick(p, c, event) ==
    IF event.type = "JOYDEVICEADDED"
    THEN IF c < p.devices
         THEN [p EXCEPT !.joystick[c] = <<c>>, !.emitted = <<on_connected>>]
         ELSE [p EXCEPT !.raised = "pygame.error"]
    ELSE p

\* BaseController.handle_event of the controller with index c.
handle_event(p, c, event) ==
    IF ~(event.type \in JoystickEvents) THEN p
    ELSE IF p.joystick[c] # <<>>
    THEN IF event.instance_id = <<>> THEN [p EXCEPT !.raised = "AttributeError"]
         ELSE IF event.instance_id = p.joystick[c]
         THEN IF event.type = "JOYDEVICEREMOVED"
              THEN [p EXCEPT !.emitted = <<on_disconnected>>, !.joystick[c] = <<>>]
              ELSE [p EXCEPT !.emitted = handle_controller_event(p.kind[c], event)]
         ELSE bind_joystick(p, c, event)
    ELSE bind_joystick(p, c, event)

\* self.connected()
connected(p, c) == p.joystick[c] # <<>>

(***************************************************************************)
(* The inputs the calls are made with.                                     *)
(***************************************************************************)
\* The outer and the inner square of the containment example.
OuterRect == <<0, 0, 100, 100>>
InnerRect == <<25, 25, 10, 10>>

\* Polygon2D(*from_rect(r).vectors[:k]): the two squares and their
\* degenerate prefixes of 0, 1, 2 and 3 vertices.
SceneShapes == {SubSeq(from_rect(r), 1, k) : r \in {OuterRect, InnerRect}, k \in 0 .. 4}

\* The rectangles collides_rect is called with: the two squares and one
\* away from both.
SceneRects == {OuterRect, InnerRect, <<200, 200, 10, 10>>}

ScenePoints == {<<30, 30>>, <<0, 0>>, <<200, 200>>}

\* Polygons of up to MaxVerts vertices on the coordinate grid.
GenericShapes == SeqsUpTo(Coord \X Coord, MaxVerts)

Operand(type, items, numeric) ==
    [type |-> type, items |-> items, numeric |-> numeric]

NoOperand == Operand("NoneType", <<>>, FALSE)

Operands ==
    {Operand("Vector2", <<3, 4>>, TRUE),      \* pygame.Vector2(3, 4)
     Operand("tuple", <<3, 4>>, TRUE),        \* (3, 4)
     Operand("tuple", <<3, 4, 5>>, TRUE),     \* (3, 4, 5)
     Operand("tuple", <<0, 0>>, FALSE),       \* ("a", "b")
     Operand("int", <<>>, TRUE)}              \* 3

\* A 2D vector or a numeric pair.
IsVectorOrPair(other) ==
    \/ other.type = "Vector2"
    \/ other.type = "tuple" /\ Len(other.items) = 2 /\ other.numeric

NoCall ==
    [op |-> "none", self |-> "", other |-> "", point |-> <<0, 0>>,
     rect |-> <<0, 0, 0, 0>>, pad |-> 0, operand |-> NoOperand,
     lines |-> <<>>, start |-> <<0, 0>>,
     idx0 |-> [a \in Poly |-> 0]]

\* No call has been made yet: every polygon is as constructed.
Fresh == call.op = "none"

(***************************************************************************)
(* The operations, each a whole call.                                      *)
(***************************************************************************)
CallCollidesPoint(a, pt) ==
    /\ call' = [NoCall EXCEPT !.op = "collides_point", !.self = a,
                              !.point = pt, !.idx0 = index]
    /\ result' = collides_point(vectors[a], pt)
    /\ out' = <<>>
    /\ passes' = <<>>
    /\ UNCHANGED <<vectors, index, rect, padding, scalar, app, signal, ref, scene, timer, pads>>

CallCollidesPolygon(a, b) ==
    \E c \in {collides_polygon(vectors, index, a, b)} :
        /\ call' = [NoCall EXCEPT !.op = "collides_polygon", !.self = a,
                                  !.other = b, !.idx0 = index]
        /\ result' = c.val
        /\ index' = c.index
        /\ passes' = c.passes
        /\ out' = <<>>
        /\ UNCHANGED <<vectors, rect, padding, scalar, app, signal, ref, scene, timer, pads>>

CallCollidesRect(a, r) ==
    \E c \in {collides_rect(vectors, index, a, r)} :
        /\ call' = [NoCall EXCEPT !.op = "collides_rect", !.self = a,
                                  !.rect = r, !.idx0 = index]
        /\ result' = c.val
        /\ index' = c.index
        /\ passes' = c.passes
        /\ out' = <<>>
        /\ UNCHANGED <<vectors, rect, padding, scalar, app, signal, ref, scene, timer, pads>>

\* list(a): __next__ until StopIteration.
RECURSIVE drain(_, _, _)
drain(vs, idx, items0) ==
    Bind(items0, LAMBDA items :
    Bind(__next__(vs, idx), LAMBDA n :
        IF n.stop THEN [outcome |-> "exhausted", index |-> n.index, items |-> items]
        ELSE drain(vs, n.index, Append(items, n.item))))

CallList(a) ==
    \E r \in {drain(vectors[a], index[a], <<>>)} :
        /\ call' = [NoCall EXCEPT !.op = "list", !.self = a, !.idx0 = index]
        /\ result' = "list"
        /\ out' = r.items
        /\ index' = [index EXCEPT ![a] = r.index]
        /\ passes' = <<Pass(a, index[a], r)>>
        /\ UNCHANGED <<vectors, rect, padding, scalar, app, signal, ref, scene, timer, pads>>

\* An addition that also stores the translated vertices in the polygon.
CallAdd_in_place(a, other) ==
    \E r \in {__add__(vectors[a], other)} :
        /\ call' = [NoCall EXCEPT !.op = "add", !.self = a, !.operand = other,
                                  !.idx0 = index]
        /\ result' = r.val
        /\ out' = r.out
        /\ passes' = <<>>
        /\ vectors' = IF r.val = "Polygon2D" THEN [vectors EXCEPT ![a] = r.out]
                      ELSE vectors
        /\ UNCHANGED <<index, rect, padding, scalar, app, signal, ref, scene, timer, pads>>

CallAdd(a, other) ==
    \E r \in {__add__(vectors[a], other)} :
        /\ call' = [NoCall EXCEPT !.op = "add", !.self = a, !.operand = other,
                                  !.idx0 = index]
        /\ result' = r.val
        /\ out' = r.out
        /\ passes' = <<>>
        /\ UNCHANGED <<vectors, index, rect, padding, scalar, app, signal, ref, scene, timer, pads>>

CallSub(a, other) ==
    \E r \in {__sub__(vectors[a], other)} :
        /\ call' = [NoCall EXCEPT !.op = "sub", !.self = a, !.operand = other,
                                  !.idx0 = index]
        /\ result' = r.val
        /\ out' = r.out
        /\ passes' = <<>>
        /\ UNCHANGED <<vectors, index, rect, padding, scalar, app, signal, ref, scene, timer, pads>>

CallRectToCoordinates(r, pad) ==
    /\ call' = [NoCall EXCEPT !.op = "rectToCoordinates", !.rect = r,
                              !.pad = pad, !.idx0 = index]
    /\ result' = "tuple"
    /\ out' = rectToCoordinates(r, pad)
    /\ passes' = <<>>
    /\ UNCHANGED <<vectors, index, rect, padding, scalar, app, signal, ref, scene, timer, pads>>

\* The operand -other.
Negated(other) == [other EXCEPT !.items = [k \in DOMAIN @ |-> -@[k]]]

\* (self + other) + (-other); the polygon in between is a temporary.
CallAddAdd(a, other) ==
    \E r \in {Bind(__add__(vectors[a], other), LAMBDA t :
                  IF t.val = "Polygon2D" THEN __add__(t.out, Negated(other))
                  ELSE t)} :
        /\ call' = [NoCall EXCEPT !.op = "add_add", !.self = a, !.operand = other,
                                  !.idx0 = index]
        /\ result' = r.val
        /\ out' = r.out
        /\ passes' = <<>>
        /\ UNCHANGED <<vectors, index, rect, padding, scalar, app, signal, ref, scene, timer, pads>>

\* (self + other) - other
CallAddSub(a, other) ==
    \E r \in {Bind(__add__(vectors[a], other), LAMBDA t :
                  IF t.val = "Polygon2D" THEN __sub__(t.out, other)
                  ELSE t)} :
        /\ call' = [NoCall EXCEPT !.op = "add_sub", !.self = a, !.operand = other,
                                  !.idx0 = index]
        /\ result' = r.val
        /\ out' = r.out
        /\ passes' = <<>>
        /\ UNCHANGED <<vectors, index, rect, padding, scalar, app, signal, ref, scene, timer, pads>>

CallCreateFromLines(start, lineto) ==
    \E r \in {create_from_lines(start, lineto)} :
        /\ call' = [NoCall EXCEPT !.op = "create_from_lines", !.point = start,
                                  !.lines = lineto, !.start = r.start,
                                  !.idx0 = index]
        /\ result' = r.val
        /\ out' = r.out
        /\ passes' = <<>>
        /\ UNCHANGED <<vectors, index, rect, padding, scalar, app, signal, ref, scene, timer, pads>>

CallRelax ==
    /\ scalar.relax = <<>>
    /\ scalar' = [scalar EXCEPT !.relax = <<relax(scalar.value, scalar.step)>>]
    /\ UNCHANGED <<vectors, index, rect, padding, call, result, out, passes,
                   app, signal, ref, scene, timer, pads>>

CallNeutralize ==
    /\ scalar.neutralize = <<>>
    /\ scalar' = [scalar EXCEPT
                      !.neutralize = <<neutralize(scalar.value, scalar.step)>>]
    /\ UNCHANGED <<vectors, index, rect, padding, call, result, out, passes,
                   app, signal, ref, scene, timer, pads>>

ConstructApp(width, height) ==
    /\ Len(app.objects) < MaxApps
    /\ app' = App_init(app, width, height)
    /\ UNCHANGED <<vectors, index, rect, padding, call, result, out, passes,
                   scalar, signal, ref, scene, timer, pads>>

SignalConnect(cb) ==
    /\ Len(signal.callbacks) < MaxCallbacks
    /\ signal' = [NoSignal EXCEPT !.op = "connect", !.cb = cb,
                                  !.before = signal.callbacks,
                                  !.callbacks = connect(signal.callbacks, cb)]
    /\ UNCHANGED <<vectors, index, rect, padding, call, result, out, passes,
                   scalar, app, ref, scene, timer, pads>>

SignalDisconnect(cb) ==
    \E r \in {disconnect(signal.callbacks, cb)} :
        /\ signal' = [NoSignal EXCEPT !.op = "disconnect", !.cb = cb,
                                      !.before = signal.callbacks,
                                      !.callbacks = r.callbacks,
                                      !.raised = r.raised]
        /\ UNCHANGED <<vectors, index, rect, padding, call, result, out, passes,
                       scalar, app, ref, scene, timer, pads>>

SignalEmit(args) ==
    \E r \in {emit(signal.callbacks, args)} :
        /\ signal' = [NoSignal EXCEPT !.op = "emit", !.args = args,
                                      !.before = signal.callbacks,
                                      !.callbacks = r.callbacks,
                                      !.raised = r.raised,
                                      !.log = r.log]
        /\ UNCHANGED <<vectors, index, rect, padding, call, result, out, passes,
                       scalar, app, ref, scene, timer, pads>>

\* What the model remembers of the ref's operation before goes.
RefBegin(op, arg) ==
    [ref EXCEPT !.op = op, !.arg = arg, !.before = ref.callbacks,
                !.before_raw = ref.raw, !.emitted = <<>>, !.log = <<>>,
                !.raised = "none"]

\* ref.watch(cb)
RefWatch(cb) ==
    /\ Len(ref.callbacks) < MaxCallbacks
    /\ ref' = [RefBegin("watch", PlainValue(NoneValue)) EXCEPT
                   !.callbacks = connect(@, cb)]
    /\ UNCHANGED <<vectors, index, rect, padding, call, result, out, passes,
                   scalar, app, signal, scene, timer, pads>>

\* ref.value = v
RefSetValue(v) ==
    /\ ref' = value_setter(RefBegin("set", PlainValue(v)), v)
    /\ UNCHANGED <<vectors, index, rect, padding, call, result, out, passes,
                   scalar, app, signal, scene, timer, pads>>

\* ref.mutate(m); a new list object takes the next identity.
RefMutate(m) ==
    /\ (m.type = "MethodCall" /\ m.name = "append") => Len(ref.raw.items) < MaxItems
    /\ (m.type = "MethodCall" /\ m.name = "copy") => ref.next_id <= MaxObjects
    /\ ref' = mutate(RefBegin("mutate", m), m)
    /\ UNCHANGED <<vectors, index, rect, padding, call, result, out, passes,
                   scalar, app, signal, scene, timer, pads>>

\* Scene(app), made outside set_scene.
ConstructScene ==
    /\ Len(scene.pages) < MaxPages
    /\ scene' = [Begin(scene, "Scene") EXCEPT !.pages = Append(@, NewScene),
                                              !.page = Len(scene.pages) + 1]
    /\ UNCHANGED <<vectors, index, rect, padding, call, result, out, passes,
                   scalar, app, signal, ref, timer, pads>>

AddNode(page, node) ==
    /\ Len(scene.pages[page].all_nodes) < MaxNodes
    /\ scene' = [add_node(Begin(scene, "add_node"), page, node) EXCEPT
                     !.page = page, !.node = node]
    /\ UNCHANGED <<vectors, index, rect, padding, call, result, out, passes,
                   scalar, app, signal, ref, timer, pads>>

AddGlobalNode(node) ==
    /\ Len(scene.global_listening_nodes) < MaxGlobalNodes
    /\ scene' = [add_global_node(Begin(scene, "add_global_node"), node) EXCEPT
                     !.node = node]
    /\ UNCHANGED <<vectors, index, rect, padding, call, result, out, passes,
                   scalar, app, signal, ref, timer, pads>>

\* app.set_scene(page) with a Scene object
SetScene(page) ==
    /\ scene' = [set_scene(Begin(scene, "set_scene"), page, FALSE) EXCEPT
                     !.page = page]
    /\ UNCHANGED <<vectors, index, rect, padding, call, result, out, passes,
                   scalar, app, signal, ref, timer, pads>>

\* app.set_scene(Scene) with the class
SetSceneClass ==
    /\ Len(scene.pages) < MaxPages
    /\ scene' = [set_scene(Begin(scene, "set_scene"), 0, TRUE) EXCEPT
                     !.class = TRUE, !.page = Len(scene.pages) + 1]
    /\ UNCHANGED <<vectors, index, rect, padding, call, result, out, passes,
                   scalar, app, signal, ref, timer, pads>>

\* One event polled by the loop, app.running being true.
LoopEvent(event) ==
    /\ scene' = [loop_event([Begin(scene, "loop_event") EXCEPT !.running = TRUE],
                            event)
                    EXCEPT !.event = event]
    /\ UNCHANGED <<vectors, index, rect, padding, call, result, out, passes,
                   scalar, app, signal, ref, timer, pads>>

\* timer.process(delta, scene)
TimerProcess(delta) ==
    /\ timer.total < MaxTriggers
    /\ \E t \in {process([timer EXCEPT !.op = "process", !.delta = delta,
                                        !.before = timer.countdown,
                                        !.fired = 0], delta)} :
           timer' = [t EXCEPT !.total = @ + t.fired]
    /\ UNCHANGED <<vectors, index, rect, padding, call, result, out, passes,
                   scalar, app, signal, ref, scene, pads>>

\* timer.reset()
TimerReset ==
    /\ timer' = [reset(timer) EXCEPT !.op = "reset", !.delta = 0,
                                     !.before = timer.countdown,
                                     !.fired = 0, !.total = 0]
    /\ UNCHANGED <<vectors, index, rect, padding, call, result, out, passes,
                   scalar, app, signal, ref, scene, pads>>

\* controller.handle_event(event) of the controller with index c
HandleEvent(c, event) ==
    /\ pads' = handle_event([pads EXCEPT !.op = "handle_event", !.self = c,
                                         !.event = event,
                                         !.before = pads.joystick,
                                         !.emitted = <<>>, !.raised = "none"],
                            c, event)
    /\ UNCHANGED <<vectors, index, rect, padding, call, result, out, passes,
                   scalar, app, signal, ref, scene, timer>>

(***************************************************************************)
(* Spec: two polygon objects p and q, constructed (Polygon2D.__init__,     *)
(* _index = 0) from the scene's shapes, and any sequence of calls on them. *)
(***************************************************************************)
InitCalls ==
    /\ index = [a \in Poly |-> 0]
    /\ call = NoCall
    /\ result = "none"
    /\ out = <<>>
    /\ passes = <<>>

InitCommon ==
    /\ InitCalls
    /\ scalar = NoScalar
    /\ app = NoApp
    /\ signal = NoSignal
    /\ ref = NoRef
    /\ scene = NoScene
    /\ timer = NoTimer
    /\ pads = NoPads

Init ==
    /\ vectors \in [Poly -> SceneShapes]
    /\ rect = <<0, 0, 0, 0>>
    /\ padding = 0
    /\ InitCommon

Next ==
    \/ \E a \in Poly, pt \in ScenePoints : CallCollidesPoint(a, pt)
    \/ \E a \in Poly, b \in Poly : CallCollidesPolygon(a, b)
    \/ \E a \in Poly, r \in SceneRects : CallCollidesRect(a, r)
    \/ \E a \in Poly : CallList(a)
    \/ \E a \in Poly, other \in Operands : CallAdd(a, other)
    \/ \E a \in Poly, other \in Operands : CallSub(a, other)

Spec == Init /\ [][Next]_vars

(***************************************************************************)
(* SpecPoint: collides_point as a function of the polygon and the point.   *)
(* p is a generic polygon, q the same vertices in reverse order; one call  *)
(* is made.                                                                *)
(***************************************************************************)
Reverse(s) == [i \in 1 .. Len(s) |-> s[Len(s) + 1 - i]]

InitPoint ==
    /\ \E vs \in GenericShapes : vectors = [a \in Poly |-> IF a = "p" THEN vs ELSE Reverse(vs)]
    /\ rect = <<0, 0, 0, 0>>
    /\ padding = 0
    /\ InitCommon

NextPoint ==
    \E a \in Poly, pt \in Points : Fresh /\ CallCollidesPoint(a, pt)

SpecPoint == InitPoint /\ [][NextPoint]_vars

(***************************************************************************)
(* SpecRect: the rectangle functions.  The inputs are a rectangle and a    *)
(* padding; p and q are two polygons built from_rect of the rectangle;     *)
(* one call is made.                                                       *)
(***************************************************************************)
\* The center of an integer rectangle: (x + w div 2, y + h div 2).
center(r) == <<r[1] + (r[3] \div 2), r[2] + (r[4] \div 2)>>

InitRect ==
    /\ rect \in Rects
    /\ padding \in 0 .. MaxPad
    /\ vectors = [a \in Poly |-> from_rect(rect)]
    /\ InitCommon

NextRect ==
    \/ Fresh /\ CallRectToCoordinates(rect, padding)
    \/ \E a \in Poly : Fresh /\ CallCollidesRect(a, rect)
    \/ \E a \in Poly : Fresh /\ CallCollidesPoint(a, center(rect))
    \/ \E a \in Poly, b \in Poly : Fresh /\ CallCollidesPolygon(a, b)

SpecRect == InitRect /\ [][NextRect]_vars

(***************************************************************************)
(* SpecScalar: relax and neutralize, each called once on a pair of float   *)
(* inputs: the small integers and the floats next to 2^(MantissaBits+1),   *)
(* where the spacing of the floats is 4.                                   *)
(***************************************************************************)
Scalars ==
    {n \in {sg * (b + d) : sg \in {-1, 1}, b \in {0, Pow2(MantissaBits + 1)},
                           d \in 0 .. MaxSmall} : Representable(n)}

\* No polygon is involved.
InitNoPolygons ==
    /\ vectors = [a \in Poly |-> <<>>]
    /\ rect = <<0, 0, 0, 0>>
    /\ padding = 0
    /\ InitCalls

InitScalar ==
    /\ InitNoPolygons
    /\ scalar \in {[NoScalar EXCEPT !.value = v, !.step = s] :
                       v \in Scalars, s \in Scalars}
    /\ app = NoApp
    /\ signal = NoSignal
    /\ ref = NoRef
    /\ scene = NoScene
    /\ timer = NoTimer
    /\ pads = NoPads

NextScalar ==
    \/ CallRelax
    \/ CallNeutralize

SpecScalar == InitScalar /\ [][NextScalar]_vars

(***************************************************************************)
(* SpecTranslate: a polygon p of floats is translated by an offset and     *)
(* back.  Big is a float so large that the floats around it are 4 apart.   *)
(***************************************************************************)
Big == Pow2(MantissaBits + 1)
TransCoord == {-2, 0, 1, 3}
OffsetCoord == {-Big, -1, 0, Big}
Offsets ==
    {Operand(type, <<dx, dy>>, TRUE) :
        type \in {"Vector2", "tuple"}, dx \in OffsetCoord, dy \in OffsetCoord}

InitTranslate ==
    /\ \E vs \in SeqsUpTo(TransCoord \X TransCoord, MaxTransVerts) :
           vectors = [a \in Poly |-> IF a = "p" THEN vs ELSE <<>>]
    /\ rect = <<0, 0, 0, 0>>
    /\ padding = 0
    /\ InitCommon

NextTranslate ==
    \/ \E other \in Offsets : Fresh /\ CallAddAdd("p", other)
    \/ \E other \in Offsets : Fresh /\ CallAddSub("p", other)

SpecTranslate == InitTranslate /\ [][NextTranslate]_vars

(***************************************************************************)
(* SpecLines: create_from_lines on a start vector and up to MaxLines       *)
(* directions.                                                             *)
(***************************************************************************)
Starts == {<<0, 0>>, <<1, 3>>, <<Big, -2>>}
Directions == {<<10, 0>>, <<0, 10>>, <<-10, 0>>, <<1, Big>>}

InitLines ==
    /\ InitNoPolygons
    /\ scalar = NoScalar
    /\ app = NoApp
    /\ signal = NoSignal
    /\ ref = NoRef
    /\ scene = NoScene
    /\ timer = NoTimer
    /\ pads = NoPads

NextLines ==
    \E start \in Starts, lineto \in SeqsUpTo(Directions, MaxLines) :
        Fresh /\ CallCreateFromLines(start, lineto)

SpecLines == InitLines /\ [][NextLines]_vars

(***************************************************************************)
(* SpecPair: p and q are the from_rect polygons of two rectangles of       *)
(* positive width and height, and one collides_polygon call is made.       *)
(***************************************************************************)
PairRects ==
    {<<x, y, w, h>> : x \in 0 .. MaxPairPos, y \in 0 .. MaxPairPos,
                      w \in 1 .. MaxPairSize, h \in 1 .. MaxPairSize}

InitPair ==
    /\ \E r1 \in PairRects, r2 \in PairRects :
           vectors = [a \in Poly |-> IF a = "p" THEN from_rect(r1) ELSE from_rect(r2)]
    /\ rect = <<0, 0, 0, 0>>
    /\ padding = 0
    /\ InitCommon

NextPair == \E a \in Poly, b \in Poly : Fresh /\ CallCollidesPolygon(a, b)

SpecPair == InitPair /\ [][NextPair]_vars

(***************************************************************************)
(* SpecApp: App objects are constructed one after another.                 *)
(***************************************************************************)
Widths == {640, 800, 1024}
Heights == {480, 600}

InitApp ==
    /\ InitNoPolygons
    /\ scalar = NoScalar
    /\ app = NoApp
    /\ signal = NoSignal
    /\ ref = NoRef
    /\ scene = NoScene
    /\ timer = NoTimer
    /\ pads = NoPads

NextApp == \E width \in Widths, height \in Heights : ConstructApp(width, height)

SpecApp == InitApp /\ [][NextApp]_vars

(***************************************************************************)
(* SpecSignal: one Signal object, constructed with no callbacks, and any   *)
(* sequence of connect, disconnect and emit on it.                         *)
(***************************************************************************)
EmitArgs == {<<1>>, <<2>>}

InitSignal ==
    /\ InitNoPolygons
    /\ scalar = NoScalar
    /\ app = NoApp
    /\ signal = NoSignal
    /\ ref = NoRef
    /\ scene = NoScene
    /\ timer = NoTimer
    /\ pads = NoPads

NextSignal ==
    \/ \E cb \in Callback : SignalConnect(cb)
    \/ \E cb \in Callback : SignalDisconnect(cb)
    \/ \E args \in EmitArgs : SignalEmit(args)

SpecSignal == InitSignal /\ [][NextSignal]_vars

(***************************************************************************)
(* Properties.                                                             *)
(***************************************************************************)
AllFresh(idx) == \A a \in DOMAIN idx : idx[a] = 0

\* Every polygon has at least three vertices (no call on them raises).
ProperPolygons == \A a \in Poly : Len(vectors[a]) >= 3

\* Every vertex of inner is inside outer, per collides_point.
FullyContains(outer, inner) ==
    /\ Len(inner) >= 3
    /\ Len(outer) >= 3
    /\ \A k \in 1 .. Len(inner) : collides_point(outer, inner[k]) = "True"

\* C1: when the polygon called on fully contains the argument, collides_polygon
\* returns true, on every call of any sequence of calls.
C1_ContainedAlwaysCollides ==
    (/\ call.op = "collides_polygon"
     /\ call.self # call.other
     /\ FullyContains(vectors[call.self], vectors[call.other]))
        => result = "True"

\* What the last call returns when made on the same polygons as constructed
\* (every cursor 0).
FreshResult ==
    LET idx0 == [a \in Poly |-> 0]
    IN  CASE call.op = "collides_point" ->
                 collides_point(vectors[call.self], call.point)
          [] call.op = "collides_rect" ->
                 collides_rect(vectors, idx0, call.self, call.rect).val
          [] call.op = "collides_polygon" ->
                 collides_polygon(vectors, idx0, call.self, call.other).val
          [] OTHER -> result

C3_PassFromFirst ==
    ProperPolygons => \A k \in 1 .. Len(passes) :
        LET ps == passes[k]
            vs == IF ps.poly = "rect_polygon" THEN from_rect(call.rect)
                  ELSE vectors[ps.poly]
        IN  /\ Len(ps.items) <= Len(vs)
            /\ ps.items = SubSeq(vs, 1, Len(ps.items))
            /\ ps.exhausted => ps.items = vs

\* Some vertex of ws is inside vs, per collides_point.
SomeVertexInside(vs, ws) ==
    \E k \in 1 .. Len(ws) : collides_point(vs, ws[k]) = "True"

\* Some edge of vs, the closing edge included, intersects some edge of ws.
SomeEdgesCross(vs, ws) ==
    \E i \in 1 .. Len(vs) : \E j \in 1 .. Len(ws) :
        _do_lines_intersect(vs[i], vs[(i % Len(vs)) + 1],
                            ws[j], ws[(j % Len(ws)) + 1])

CollisionCriterion(vs, ws) ==
    \/ SomeVertexInside(vs, ws)
    \/ SomeVertexInside(ws, vs)
    \/ SomeEdgesCross(vs, ws)

\* C4: on two polygons as constructed, collides_polygon returns true if a
\* vertex of one is inside the other or two edges intersect, and false
\* otherwise.
C4_FreshCriterion ==
    (/\ call.op = "collides_polygon"
     /\ call.self # call.other
     /\ AllFresh(call.idx0))
        => result = Bool(CollisionCriterion(vectors[call.self], vectors[call.other]))

\* The same with neither polygon empty (where the code raises nothing).
FreshCriterionNonEmpty ==
    (/\ call.op = "collides_polygon"
     /\ call.self # call.other
     /\ AllFresh(call.idx0)
     /\ Len(vectors[call.self]) > 0
     /\ Len(vectors[call.other]) > 0)
        => result = Bool(CollisionCriterion(vectors[call.self], vectors[call.other]))

\* point_x at or before the x-intersection of the horizontal ray at point_y
\* with the non-horizontal edge (v1, v2).
AtOrBeforeCrossing(v1, v2, pt) ==
    LET d == v2[2] - v1[2]
        n == (pt[2] - v1[2]) * (v2[1] - v1[1])
    IN  IF d > 0 THEN (pt[1] - v1[1]) * d <= n ELSE (pt[1] - v1[1]) * d >= n

\* The tie-break rule as the claim states it.
TogglesAsStated(v1, v2, pt) ==
    /\ pt[2] > min(v1[2], v2[2])
    /\ pt[2] <= max(v1[2], v2[2])
    /\ (v1[1] = v2[1] \/ AtOrBeforeCrossing(v1, v2, pt))

\* The rule with the test the code also makes: the point's x at or before
\* the larger x of the edge.
TogglesWithBound(v1, v2, pt) ==
    /\ TogglesAsStated(v1, v2, pt)
    /\ pt[1] <= max(v1[1], v2[1])

OddToggles(vs, pt, Toggles(_, _, _)) ==
    Cardinality({i \in 1 .. Len(vs) :
                    Toggles(vs[i], vs[(i % Len(vs)) + 1], pt)}) % 2 = 1

\* C5 as stated: collides_point returns the parity of the edges that satisfy
\* the stated rule.
C5_ParityAsStated ==
    (call.op = "collides_point" /\ Len(vectors[call.self]) > 0)
        => result = Bool(OddToggles(vectors[call.self], call.point, TogglesAsStated))

\* C5 amended: on a polygon with a vertex, collides_point returns the parity of
\* the edges that satisfy the rule and have the point's x at or before their
\* larger x; on the empty polygon it raises IndexError.
C5_ParityWithBound ==
    call.op = "collides_point"
        => IF Len(vectors[call.self]) > 0
           THEN result = Bool(OddToggles(vectors[call.self], call.point,
                                         TogglesWithBound))
           ELSE result = "IndexError"

\* A point right of a vertical edge and inside the polygon.
C5_Witness ==
    /\ call.op = "collides_point"
    /\ result = "True"
    /\ \E i \in 1 .. Len(vectors[call.self]) :
           LET v1 == vectors[call.self][i]
               v2 == vectors[call.self][(i % Len(vectors[call.self])) + 1]
           IN  /\ TogglesAsStated(v1, v2, call.point)
               /\ ~TogglesWithBound(v1, v2, call.point)

OfOwnRect(a) == vectors[a] = from_rect(rect) /\ AllFresh(call.idx0)

RectCollisionTrue ==
    /\ (call.op = "collides_rect" /\ call.rect = rect /\ OfOwnRect(call.self))
           => result = "True"
    /\ (call.op = "collides_polygon" /\ call.self # call.other
            /\ OfOwnRect(call.self) /\ OfOwnRect(call.other))
           => result = "True"

\* C6 as stated: for every rectangle R, from_rect(R) collides with R and with
\* another from_rect(R).
C6_OwnRectCollides == RectCollisionTrue

\* C6 amended: the same for every rectangle of non-zero width and height.
C6_OwnRectCollidesNonEmpty ==
    (rect[3] # 0 /\ rect[4] # 0) => RectCollisionTrue

C6_Witness ==
    /\ call.op = "collides_rect"
    /\ call.rect = rect
    /\ OfOwnRect(call.self)
    /\ rect[3] > 0
    /\ rect[4] > 0
    /\ result = "True"

CenterInside ==
    (call.op = "collides_point" /\ call.point = center(rect)
        /\ vectors[call.self] = from_rect(rect))
           => result = "True"

\* C7 as stated: for every rectangle R, from_rect(R) contains the center of R.
C7_CenterInside == CenterInside

\* C7 amended: the same for every rectangle of width and height at least 2.
C7_CenterInsideFrom2 ==
    (rect[3] >= 2 /\ rect[4] >= 2) => CenterInside

C7_Witness ==
    /\ call.op = "collides_point"
    /\ call.point = center(rect)
    /\ vectors[call.self] = from_rect(rect)
    /\ rect[3] >= 2
    /\ rect[4] = 3
    /\ result = "True"

\* The corners of the rectangle with the given sides, in the order top-left,
\* top-right, bottom-right, bottom-left.
Corners(left, top, right, bottom) ==
    << <<left, top>>, <<right, top>>, <<right, bottom>>, <<left, bottom>> >>

\* C8 as stated: rectToCoordinates(R, p) is R inflated by p+1 on every side.
C8_InflatedEverySide ==
    call.op = "rectToCoordinates"
        => out = Corners(call.rect[1] - (call.pad + 1),
                         call.rect[2] - (call.pad + 1),
                         call.rect[1] + call.rect[3] + (call.pad + 1),
                         call.rect[2] + call.rect[4] + (call.pad + 1))

\* C8 amended: rectToCoordinates(R, p) is R moved out by p+1 on the left and
\* the top and by p on the right and the bottom.
C8_InflatedLeftTop ==
    call.op = "rectToCoordinates"
        => out = Corners(call.rect[1] - (call.pad + 1),
                         call.rect[2] - (call.pad + 1),
                         call.rect[1] + call.rect[3] + call.pad,
                         call.rect[2] + call.rect[4] + call.pad)

C8_Witness ==
    /\ call.op = "rectToCoordinates"
    /\ call.pad = 1
    /\ call.rect[3] > 0
    /\ Len(out) = 4

\* C9: collides_point and collides_polygon return a boolean and raise nothing,
\* and collides_point reads no x-intersection but the current edge's.
C9_NeverRaises ==
    /\ call.op \in {"collides_point", "collides_polygon"}
           => result \in {"True", "False"}
    /\ (call.op = "collides_point" /\ Len(vectors[call.self]) > 0)
           => ~ray_cast_end(vectors[call.self], call.point).stale

\* The part of C9 the code keeps: an x-intersection is read only when the
\* current edge has assigned it.
XIntersectionCurrent ==
    (call.op = "collides_point" /\ Len(vectors[call.self]) > 0)
        => /\ ~ray_cast_end(vectors[call.self], call.point).stale
           /\ result # "UnboundLocalError"

\* C10: + and - with an operand that is neither a 2D vector nor a numeric pair
\* raise TypeError and produce no polygon.
C10_BadOperandRaises ==
    (call.op \in {"add", "sub"} /\ ~IsVectorOrPair(call.operand))
        => result = "TypeError" /\ out = <<>>

(***************************************************************************)
(* SpecRef: one Ref object holding an empty list, its watchers, and any    *)
(* sequence of watch, assignments to value and mutate.                     *)
(***************************************************************************)
InitIdle ==
    /\ InitNoPolygons
    /\ scalar = NoScalar
    /\ app = NoApp
    /\ signal = NoSignal
    /\ ref = NoRef
    /\ scene = NoScene
    /\ timer = NoTimer
    /\ pads = NoPads

MethodCalls ==
    {MethodCall("append", <<x>>, u) : x \in 1 .. 2, u \in BOOLEAN}
    \cup {MethodCall("copy", <<>>, u) : u \in BOOLEAN}
    \cup {MethodCall("missing", <<>>, u) : u \in BOOLEAN}

NextRef ==
    \/ \E cb \in Callback : RefWatch(cb)
    \/ \E v \in {IntValue(1), NoneValue} : RefSetValue(v)
    \/ \E v \in {IntValue(1), NoneValue} : RefMutate(PlainValue(v))
    \/ \E m \in MethodCalls : RefMutate(m)

SpecRef == InitIdle /\ [][NextRef]_vars

(***************************************************************************)
(* SpecScene: an App, the Scene objects made for it, their nodes, the      *)
(* page set as current and the events of the loop.                         *)
(***************************************************************************)
LoopEvents == {"QUIT", "KEYDOWN"}

NextScene ==
    \/ ConstructScene
    \/ \E page \in 1 .. Len(scene.pages), node \in NodeKinds : AddNode(page, node)
    \/ \E node \in NodeKinds : AddGlobalNode(node)
    \/ \E page \in 1 .. Len(scene.pages) : SetScene(page)
    \/ SetSceneClass
    \/ \E event \in LoopEvents : LoopEvent(event)

SpecScene == InitIdle /\ [][NextScene]_vars

(***************************************************************************)
(* SpecTimer: a Timer constructed with a timeout, and any sequence of      *)
(* process with a non-negative delta and reset.                            *)
(***************************************************************************)
Timeouts == (0 .. MaxTimeout) \cup {Big + 4}
Deltas == (0 .. 2) \cup {Big}

InitTimer ==
    /\ InitNoPolygons
    /\ scalar = NoScalar
    /\ app = NoApp
    /\ signal = NoSignal
    /\ ref = NoRef
    /\ scene = NoScene
    /\ timer \in {[NoTimer EXCEPT !.timeout = timeout, !.single_shot = single_shot] :
                      timeout \in Timeouts, single_shot \in BOOLEAN}
    /\ pads = NoPads

NextTimer ==
    \/ \E delta \in Deltas : TimerProcess(delta)
    \/ TimerReset

SpecTimer == InitTimer /\ [][NextTimer]_vars

(***************************************************************************)
(* SpecPads: MaxControllers controllers, constructed in the order of their *)
(* indices and not connected, and the events they handle.                  *)
(***************************************************************************)
Controllers == 0 .. MaxControllers - 1
InstanceIds == 0 .. MaxDevices - 1

PadEvents ==
    {Event("JOYDEVICEADDED", <<>>, 0, 0), Event("KEYDOWN", <<>>, 0, 0),
     Event("QUIT", <<>>, 0, 0)}
    \cup {Event(type, <<i>>, 0, 0) :
            type \in {"JOYDEVICEREMOVED", "JOYHATMOTION"}, i \in InstanceIds}
    \cup {Event(type, <<i>>, b, 0) :
            type \in {"JOYBUTTONUP", "JOYBUTTONDOWN"}, i \in InstanceIds,
            b \in 0 .. 15}
    \cup {Event("JOYAXISMOTION", <<i>>, 0, a) : i \in InstanceIds, a \in 0 .. 6}

InitPads ==
    /\ InitNoPolygons
    /\ scalar = NoScalar
    /\ app = NoApp
    /\ signal = NoSignal
    /\ ref = NoRef
    /\ scene = NoScene
    /\ timer = NoTimer
    /\ \E devices \in 1 .. MaxDevices,
          kind \in [Controllers -> {"BaseController", "Playstation4Controller"}] :
           pads = [NoPads EXCEPT !.devices = devices, !.kind = kind,
                                 !.joystick = [c \in Controllers |-> <<>>],
                                 !.before = [c \in Controllers |-> <<>>]]

NextPads == \E c \in Controllers, event \in PadEvents : HandleEvent(c, event)

SpecPads == InitPads /\ [][NextPads]_vars

(***************************************************************************)
(* Translation.                                                            *)
(***************************************************************************)
RoundTrip == call.op \in {"add_add", "add_sub"}

\* C11 as stated: translating a polygon by an offset and then by the
\* opposite offset, or subtracting the offset again, gives a polygon with
\* exactly the original vertex sequence.
C11_RoundTrip ==
    RoundTrip => (result = "Polygon2D" /\ out = vectors[call.self])

\* C11 amended: the round trip gives a polygon of the same length, and
\* every coordinate whose sum with the offset is a float, so that the first
\* translation does not round, comes back exactly.
C11_RoundTripExact ==
    RoundTrip =>
        /\ result = "Polygon2D"
        /\ Len(out) = Len(vectors[call.self])
        /\ \A i \in 1 .. Len(out), k \in 1 .. 2 :
               Representable(vectors[call.self][i][k] + call.operand.items[k])
                   => out[i][k] = vectors[call.self][i][k]

\* A polygon of two vertices came back exactly from an offset that moves it
\* along both axes; one of them is the large offset.
C11_Witness ==
    /\ RoundTrip
    /\ Len(vectors[call.self]) = 2
    /\ call.operand.items[1] = Big
    /\ call.operand.items[2] = -1
    /\ out = vectors[call.self]

\* C12: polygon + offset and polygon - offset return a new polygon with as
\* many vertices as the original, each the original vertex moved by the
\* offset, and leave the vertex sequence and the cursor of every polygon as
\* they were.
C12_TranslationDoesNotMutate ==
    [][(call'.op \in {"add", "sub"} /\ result' = "Polygon2D") =>
          LET vs == vectors[call'.self]
              d == call'.operand.items
              sign == IF call'.op = "add" THEN 1 ELSE -1
          IN  /\ vectors' = vectors
              /\ index' = index
              /\ Len(out') = Len(vs)
              /\ \A i \in 1 .. Len(vs) :
                     out'[i] = <<vs[i][1] + sign * d[1], vs[i][2] + sign * d[2]>>
      ]_vars

\* A polygon whose cursor is in the middle of a pass was translated.
C12_Witness ==
    /\ call.op \in {"add", "sub"}
    /\ result = "Polygon2D"
    /\ Len(out) >= 3
    /\ out # vectors[call.self]
    /\ index[call.self] > 0

(***************************************************************************)
(* create_from_lines.                                                      *)
(***************************************************************************)
RECURSIVE RunningSum(_, _, _)
\* start + d1 + ... + dk, summed from the left as Vector2 sums.
RunningSum(start, lines, k) ==
    IF k = 0 THEN start
    ELSE LET s == RunningSum(start, lines, k - 1)
         IN  <<float_add(s[1], lines[k][1]), float_add(s[2], lines[k][2])>>

\* C13: create_from_lines(start, d1, ..., dn) returns a polygon of n + 1
\* vertices, vertex 0 is start, vertex k is start + d1 + ... + dk, and the
\* start vector has its value when the call returns.
C13_RunningSum ==
    call.op = "create_from_lines" =>
        /\ result = "Polygon2D"
        /\ Len(out) = Len(call.lines) + 1
        /\ \A k \in 0 .. Len(call.lines) :
               out[k + 1] = RunningSum(call.point, call.lines, k)
        /\ call.start = call.point

\* The example: start (0,0) with (10,0), (0,10), (-10,0).
C13_Witness ==
    /\ call.op = "create_from_lines"
    /\ call.point = <<0, 0>>
    /\ call.lines = <<<<10, 0>>, <<0, 10>>, <<-10, 0>>>>
    /\ out = <<<<0, 0>>, <<10, 0>>, <<10, 10>>, <<0, 10>>>>

(***************************************************************************)
(* The scalar helpers.                                                     *)
(***************************************************************************)
Relaxed == scalar.relax # <<>> /\ scalar.step > 0

\* C14 as stated: for a step s > 0, relax(v, s) is 0 when abs(v) < s and
\* otherwise is strictly nearer to zero than v.
C14_RelaxShrinks ==
    Relaxed =>
        IF abs(scalar.value) < scalar.step THEN scalar.relax[1] = 0
        ELSE abs(scalar.relax[1]) < abs(scalar.value)

\* C14 amended: for a step s > 0, relax(v, s) is 0 when abs(v) < s;
\* otherwise it lies between zero and v, at most as far from zero as v, and
\* strictly nearer whenever abs(v) - s is a float.
C14_RelaxNeverGrows ==
    Relaxed =>
        IF abs(scalar.value) < scalar.step THEN scalar.relax[1] = 0
        ELSE /\ abs(scalar.relax[1]) <= abs(scalar.value)
             /\ scalar.relax[1] * scalar.value >= 0
             /\ Representable(abs(scalar.value) - scalar.step)
                    => abs(scalar.relax[1]) < abs(scalar.value)

\* A large value relaxed by a small step: the difference is rounded back
\* to the value.
C14_Witness ==
    /\ Relaxed
    /\ abs(scalar.value) >= scalar.step
    /\ ~Representable(abs(scalar.value) - scalar.step)
    /\ scalar.relax[1] = scalar.value

\* C15: when abs(v) >= s, neutralize(v, s) and relax(v, s) return the same
\* value, for v = 0 too.
C15_NeutralizeIsRelax ==
    (/\ scalar.relax # <<>>
     /\ scalar.neutralize # <<>>
     /\ abs(scalar.value) >= scalar.step)
        => scalar.neutralize = scalar.relax

\* Both were called on 0 with a negative step and returned the step.
C15_Witness ==
    /\ scalar.value = 0
    /\ scalar.step < 0
    /\ scalar.relax = <<scalar.step>>
    /\ scalar.neutralize = <<scalar.step>>

(***************************************************************************)
(* Polygons and points apart.                                              *)
(***************************************************************************)
Xs(vs) == {vs[i][1] : i \in 1 .. Len(vs)}
Ys(vs) == {vs[i][2] : i \in 1 .. Len(vs)}

\* Every element of S is below every element of T.
AllBelow(S, T) == \A x \in S, y \in T : x < y

\* A positive gap along the x axis or along the y axis.
GapBetween(vs, ws) ==
    \/ AllBelow(Xs(vs), Xs(ws)) \/ AllBelow(Xs(ws), Xs(vs))
    \/ AllBelow(Ys(vs), Ys(ws)) \/ AllBelow(Ys(ws), Ys(vs))

\* C16: collides_polygon between the fresh from_rect polygons of two
\* rectangles of positive width and height with a positive gap between
\* them along an axis returns False, in either order of the two.
C16_ApartRectsDontCollide ==
    (/\ call.op = "collides_polygon"
     /\ call.self # call.other
     /\ GapBetween(vectors[call.self], vectors[call.other]))
        => result = "False"

\* q.collides_polygon(p) returned False where q is right of p with a gap and
\* the two overlap in y.
C16_Witness ==
    /\ call.op = "collides_polygon"
    /\ call.self = "q"
    /\ call.other = "p"
    /\ AllBelow(Xs(vectors["p"]), Xs(vectors["q"]))
    /\ Ys(vectors["p"]) \cap Ys(vectors["q"]) # {}
    /\ result = "False"

LeftOf(pt, vs) == AllBelow({pt[1]}, Xs(vs))

\* Strictly outside the bounding extent of the vertices.
OutsideExtent(pt, vs) ==
    \/ LeftOf(pt, vs) \/ AllBelow(Xs(vs), {pt[1]})
    \/ AllBelow({pt[2]}, Ys(vs)) \/ AllBelow(Ys(vs), {pt[2]})

\* C17: for a polygon with a vertex and a point strictly outside its bounding
\* extent collides_point returns False, and for a point to the left the
\* edges that toggle are even in number.
C17_OutsideIsFalse ==
    (/\ call.op = "collides_point"
     /\ Len(vectors[call.self]) >= 1
     /\ OutsideExtent(call.point, vectors[call.self]))
        => /\ result = "False"
           /\ LeftOf(call.point, vectors[call.self])
                  => ~OddToggles(vectors[call.self], call.point, TogglesWithBound)

\* A point left of a polygon, on a ray that two of its edges toggle.
C17_Witness ==
    /\ call.op = "collides_point"
    /\ LeftOf(call.point, vectors[call.self])
    /\ Cardinality({i \in 1 .. Len(vectors[call.self]) :
           TogglesWithBound(vectors[call.self][i],
                            vectors[call.self][(i % Len(vectors[call.self])) + 1],
                            call.point)}) = 2
    /\ result = "False"

(***************************************************************************)
(* App.                                                                    *)
(***************************************************************************)
\* C18: at most one App object exists and pygame.display.set_mode is called
\* at most once: once an App exists a further construction raises.
C18_SingleApp ==
    /\ Len(app.objects) <= 1
    /\ app.set_mode <= 1

\* The attribute INSTANCE of the class is never assigned.
ClassInstanceStaysNone == app.App_INSTANCE = 0

(***************************************************************************)
(* Signal.                                                                 *)
(***************************************************************************)
\* C19: emit calls every callback that is connected when it begins, once for
\* each registration, in the order of registration, each with the emitted
\* arguments; with no callback connected it calls nothing.
C19_EmitCallsEveryCallback ==
    signal.op = "emit" =>
        /\ signal.raised = "none"
        /\ signal.log = [k \in 1 .. Len(signal.before) |->
                             <<signal.before[k], signal.args>>]

\* The same for the emits in which no connected callback changes the list.
EmitCallsEveryPassiveCallback ==
    (signal.op = "emit" /\ \A k \in 1 .. Len(signal.before) : signal.before[k] # "once")
        => signal.log = [k \in 1 .. Len(signal.before) |->
                            <<signal.before[k], signal.args>>]

\* The registrations of cb in a list.
Registrations(callbacks, cb) == {i \in 1 .. Len(callbacks) : callbacks[i] = cb}

\* The list without its i-th registration.
Without(callbacks, i) ==
    [k \in 1 .. Len(callbacks) - 1 |-> IF k < i THEN callbacks[k] ELSE callbacks[k + 1]]

\* C20: disconnect(cb) removes the earliest registration of cb and keeps the
\* others in their order, so that a callback that was connected once is not
\* connected afterwards; when cb is not connected it raises ValueError and
\* leaves the list as it was.  An emit calls only callbacks that were
\* connected when it began.
C20_DisconnectRemovesEarliest ==
    /\ signal.op = "disconnect" =>
           LET regs == Registrations(signal.before, signal.cb)
           IN  IF regs = {}
               THEN signal.raised = "ValueError" /\ signal.callbacks = signal.before
               ELSE /\ signal.raised = "none"
                    /\ \E i \in regs :
                           /\ \A j \in regs : i <= j
                           /\ signal.callbacks = Without(signal.before, i)
                    /\ Cardinality(regs) = 1
                           => Registrations(signal.callbacks, signal.cb) = {}
    /\ signal.op = "emit" =>
           \A k \in 1 .. Len(signal.log) :
               Registrations(signal.before, signal.log[k][1]) # {}

\* The earliest of two registrations of a callback was removed, with another
\* callback registered between them.
C20_Witness ==
    /\ signal.op = "disconnect"
    /\ Cardinality(Registrations(signal.before, signal.cb)) = 2
    /\ Len(signal.before) = 3
    /\ signal.before[2] # signal.cb
    /\ signal.callbacks = SubSeq(signal.before, 2, 3)

\* A disconnect of a callback that is not connected raised.
DisconnectRaised ==
    /\ signal.op = "disconnect"
    /\ signal.raised = "ValueError"
    /\ signal.callbacks # <<>>

(***************************************************************************)
(* Ref.                                                                    *)
(***************************************************************************)
\* The calls emit makes when every callback of the list is called once, in
\* the order of the list.
CallsInOrder(callbacks, args) ==
    [k \in 1 .. Len(callbacks) |-> <<callbacks[k], args>>]

\* C21: ref.value = v stores v and emits the signal once with v, whether or
\* not v equals the value before; every watcher registered when the
\* assignment begins is called with v, in the order of registration, and
\* ref.value is v afterwards.
C21_AssignmentCallsEveryWatcher ==
    ref.op = "set" =>
        /\ value_getter(ref) = ref.arg.value
        /\ ref.emitted = <<<<ref.arg.value>>>>
        /\ ref.log = CallsInOrder(ref.before, <<ref.arg.value>>)

\* The same for the assignments made while no watcher changes the list, and
\* without the watchers for all of them.
AssignmentCallsEveryPassiveWatcher ==
    ref.op = "set" =>
        /\ value_getter(ref) = ref.arg.value
        /\ ref.emitted = <<<<ref.arg.value>>>>
        /\ (\A k \in 1 .. Len(ref.before) : ref.before[k] # "once")
               => ref.log = CallsInOrder(ref.before, <<ref.arg.value>>)

\* An assignment of the value the ref already held called two watchers.
AssignmentOfEqualValue ==
    /\ ref.op = "set"
    /\ ref.before_raw = ref.arg.value
    /\ Len(ref.log) = 2

MutateInPlace ==
    /\ ref.op = "mutate"
    /\ ref.arg.type = "MethodCall"
    /\ ref.arg.name = "append"
    /\ ~ref.arg.use_return_value
    /\ ref.raw.id = ref.before_raw.id
    /\ Len(ref.raw.items) = 2

\* A mutate naming a method the value held does not have raises
\* AttributeError from getattr, before anything is stored or emitted.
MutateMissingMethodRaises ==
    (ref.op = "mutate" /\ ref.raised # "none") =>
        /\ ref.arg.type = "MethodCall"
        /\ ~has_method(ref.before_raw, ref.arg.name)
        /\ ref.raised = "AttributeError"
        /\ ref.emitted = <<>>
        /\ ref.raw = ref.before_raw

(***************************************************************************)
(* The controllers.                                                        *)
(***************************************************************************)
\* C23: a controller that is not connected and handles JOYDEVICEADDED binds
\* its joystick, is connected afterwards and emits on_connected once; a
\* connected controller that handles JOYDEVICEREMOVED with the instance id
\* of its joystick emits on_disconnected once and is not connected
\* afterwards; an event that is not a joystick event changes nothing and
\* emits nothing.
C23_HotPlug ==
    pads.op = "handle_event" =>
        /\ (pads.before[pads.self] = <<>> /\ pads.event.type = "JOYDEVICEADDED") =>
               /\ pads.raised = "none"
               /\ connected(pads, pads.self)
               /\ pads.emitted = <<on_connected>>
        /\ (/\ pads.before[pads.self] # <<>>
            /\ pads.event.type = "JOYDEVICEREMOVED"
            /\ pads.event.instance_id = pads.before[pads.self]) =>
               /\ pads.emitted = <<on_disconnected>>
               /\ ~connected(pads, pads.self)
        /\ ~(pads.event.type \in JoystickEvents) =>
               /\ pads.joystick = pads.before
               /\ pads.emitted = <<>>
               /\ pads.raised = "none"

\* The same where the first part is about the controllers whose index is the
\* index of a joystick pygame sees.
HotPlugOfPresentDevice ==
    pads.op = "handle_event" =>
        /\ (/\ pads.before[pads.self] = <<>>
            /\ pads.event.type = "JOYDEVICEADDED"
            /\ pads.self < pads.devices) =>
               /\ pads.raised = "none"
               /\ connected(pads, pads.self)
               /\ pads.emitted = <<on_connected>>
        /\ (/\ pads.before[pads.self] # <<>>
            /\ pads.event.type = "JOYDEVICEREMOVED"
            /\ pads.event.instance_id = pads.before[pads.self]) =>
               /\ pads.emitted = <<on_disconnected>>
               /\ ~connected(pads, pads.self)
        /\ ~(pads.event.type \in JoystickEvents) =>
               /\ pads.joystick = pads.before
               /\ pads.emitted = <<>>
               /\ pads.raised = "none"

\* A controller was connected and later disconnected.
Unplugged ==
    /\ pads.op = "handle_event"
    /\ pads.before[pads.self] # <<>>
    /\ pads.emitted = <<on_disconnected>>
    /\ ~connected(pads, pads.self)

\* A controller raises pygame.error from JOYDEVICEADDED only when its index
\* is not the index of a joystick, and then it stays unconnected.
AddedRaisesWithoutDevice ==
    pads.raised = "pygame.error" =>
        /\ pads.event.type = "JOYDEVICEADDED"
        /\ pads.self >= pads.devices
        /\ ~connected(pads, pads.self)
        /\ pads.emitted = <<>>

\* The names of the buttons by id, and the signal on_<name>_button_<edge>.
ButtonNames ==
    <<"x", "circle", "square", "triangle", "share", "ps", "option", "l3", "r3",
      "l1", "r1", "direction_up", "direction_down", "direction_left",
      "direction_right", "track_pad">>

\* The connected Playstation4Controller handled an event of its joystick.
HandledByPlaystation4 ==
    /\ pads.op = "handle_event"
    /\ pads.kind[pads.self] = "Playstation4Controller"
    /\ pads.before[pads.self] # <<>>
    /\ pads.event.instance_id = pads.before[pads.self]

\* C28: on a connected Playstation4Controller, JOYBUTTONUP of a button id in
\* 0..15 emits the up signal of that button once and no down signal, and
\* JOYBUTTONDOWN emits its down signal once and no up signal.
C28_ButtonSignals ==
    HandledByPlaystation4 =>
        /\ pads.event.type = "JOYBUTTONUP" =>
               pads.emitted = <<<<ButtonNames[pads.event.button + 1], "up">>>>
        /\ pads.event.type = "JOYBUTTONDOWN" =>
               pads.emitted = <<<<ButtonNames[pads.event.button + 1], "down">>>>

\* The same for every button but the triangle released.
ButtonSignalsButTriangleUp ==
    (HandledByPlaystation4 /\ ~(pads.event.type = "JOYBUTTONUP" /\ pads.event.button = 3)) =>
        /\ pads.event.type = "JOYBUTTONUP" =>
               pads.emitted = <<<<ButtonNames[pads.event.button + 1], "up">>>>
        /\ pads.event.type = "JOYBUTTONDOWN" =>
               pads.emitted = <<<<ButtonNames[pads.event.button + 1], "down">>>>

\* No event makes a controller emit on_triangle_button_up.
TriangleUpNeverEmitted ==
    \A k \in 1 .. Len(pads.emitted) : pads.emitted[k] # <<"triangle", "up">>

\* The track pad button of a connected Playstation4Controller was pressed.
TrackPadPressed ==
    /\ HandledByPlaystation4
    /\ pads.event.type = "JOYBUTTONDOWN"
    /\ pads.event.button = 15
    /\ pads.emitted = <<<<"track_pad", "down">>>>

(***************************************************************************)
(* Scenes and the event loop.                                              *)
(***************************************************************************)
\* C24: set_scene calls reset of the page that was current, once, if there
\* was one, and nothing of it otherwise; then it instantiates the page if a
\* class was passed; then it calls init of the new page, once, while the
\* page that was current still is; and after that the new page is current.
C24_SetSceneOrder ==
    scene.op = "set_scene" =>
        LET prev == scene.before_page
            resets == IF prev # 0 THEN <<Called("reset", prev, "", prev)>> ELSE <<>>
            made == IF scene.class
                    THEN <<Called("__init__", scene.page, "", prev)>> ELSE <<>>
        IN  /\ scene.trace = resets \o made \o <<Called("init", scene.page, "", prev)>>
            /\ scene.current_page = scene.page
            /\ scene.class => scene.pages[scene.page] = NewScene

\* A class was set as the scene while another page was current.
C24_Witness ==
    /\ scene.op = "set_scene"
    /\ scene.class
    /\ scene.before_page # 0
    /\ scene.before_page # scene.page
    /\ Len(scene.trace) = 3
    /\ scene.current_page = scene.page

\* The first set_scene, with a Scene object, called no reset.
FirstSetScene ==
    /\ scene.op = "set_scene"
    /\ ~scene.class
    /\ scene.before_page = 0
    /\ Len(scene.trace) = 1

\* C26: an event the loop polls while a scene is current is handled by every
\* node of the scene's listening_nodes, in the order of the list, and then
\* by the scene's handle_event, as in Scene._handle_event.
C26_LoopDeliversToListeningNodes ==
    (scene.op = "loop_event" /\ scene.current_page # 0) =>
        LET delivered == Scene_handle_event(scene, scene.current_page)
        IN  /\ Len(scene.trace) >= Len(delivered)
            /\ \A k \in 1 .. Len(delivered) : scene.trace[k] = delivered[k]

\* The loop gives the event to the handle_event of the current scene and
\* then to App._handle_event, and to nothing else.
LoopCallsSceneHandleEvent ==
    scene.op = "loop_event" =>
        scene.trace =
            (IF scene.current_page # 0
             THEN <<Called("Scene.handle_event", scene.current_page, "",
                           scene.current_page)>>
             ELSE <<>>)
            \o [k \in 1 .. Len(scene.global_listening_nodes) |->
                    Called("Node.handle_event", 0, scene.global_listening_nodes[k],
                           scene.current_page)]
            \o <<Called("App.handle_event", 0, "", scene.current_page)>>

\* No operation calls handle_event of a node of a scene.
SceneNodesNeverHandleEvents ==
    \A k \in 1 .. Len(scene.trace) :
        scene.trace[k].call = "Node.handle_event" => scene.trace[k].page = 0

\* An event was polled while the current scene had two listening nodes.
PolledWithListeningNodes ==
    /\ scene.op = "loop_event"
    /\ scene.current_page # 0
    /\ Len(scene.pages[scene.current_page].listening_nodes) = 2

(***************************************************************************)
(* Timer.                                                                  *)
(***************************************************************************)
\* C25: a single-shot timer with a positive timeout calls its trigger at most
\* once between two resets, in the first process call that brings the
\* countdown, the sum of the deltas, to the timeout or above; from then on
\* active is false and a process call neither calls the trigger nor changes
\* the countdown, until reset() is called.
C25_SingleShotFiresOnce ==
    (timer.single_shot /\ timer.timeout > 0) =>
        /\ timer.total <= 1
        /\ timer.total = 1 <=> ~active(timer)
        /\ timer.op = "process" =>
               LET armed == less_than(timer.before, timer.timeout)
                   sum == plus(timer.before, timer.delta)
                   reached == at_least(sum, timer.timeout)
               IN  /\ timer.fired = IF armed /\ reached THEN 1 ELSE 0
                   /\ (armed /\ reached) => ~active(timer)
                   /\ (armed /\ ~reached) => timer.countdown = sum
                   /\ ~armed => timer.countdown = timer.before
        /\ timer.op = "reset" => active(timer) /\ timer.countdown = Finite(0)

\* A single-shot timer that had called its trigger, after several process
\* calls, was processed again.
C25_Witness ==
    /\ timer.single_shot
    /\ timer.timeout = MaxTimeout
    /\ timer.op = "process"
    /\ timer.delta > 0
    /\ timer.before = math_inf
    /\ timer.fired = 0
    /\ timer.total = 1

\* The trigger was called in the third process call or later.
FiredAfterSeveralCalls ==
    /\ timer.single_shot
    /\ timer.op = "process"
    /\ timer.fired = 1
    /\ timer.before = Finite(2)
    /\ timer.delta = 1
    /\ timer.timeout = 3

\* A timer that is not single-shot calls its trigger again.
RepeatingTimerFiresAgain ==
    /\ ~timer.single_shot
    /\ timer.total = MaxTriggers

\* A delta too small for the countdown leaves the countdown as it is.
DeltaAbsorbed ==
    /\ timer.op = "process"
    /\ timer.delta > 0
    /\ timer.before = Finite(Big)
    /\ timer.countdown = timer.before

(***************************************************************************)
(* Signal.emit while callbacks change the list.                            *)
(***************************************************************************)
\* The number of calls of cb in a log of calls.
Invocations(log, cb) == Cardinality({k \in 1 .. Len(log) : log[k][1] = cb})

\* C27: an emit calls every callback exactly as many times as it is connected
\* when the emit begins, also when a callback disconnects a callback while
\* the emit runs.
C27_EmitRobustToListChanges ==
    signal.op = "emit" =>
        \A cb \in Callback :
            Invocations(signal.log, cb)
                = Cardinality(Registrations(signal.before, cb))

\* An emit calls no callback more often than it was connected when the emit
\* began, and it misses one only after a callback that disconnected itself.
EmitSkipsOnlyAfterDisconnect ==
    signal.op = "emit" =>
        /\ \A cb \in Callback :
               Invocations(signal.log, cb)
                   <= Cardinality(Registrations(signal.before, cb))
        /\ Len(signal.log) < Len(signal.before)
               => Registrations(signal.before, "once") # {}

\* An emit with three callbacks connected called one of them only.
EmitSkipped ==
    /\ signal.op = "emit"
    /\ Len(signal.before) = 3
    /\ Len(signal.log) < 3

====
